---- MODULE Spec2Model ----
(***************************************************************************)
(* Model of the Kakao order system (src/main.py): the chat webhook         *)
(* kakao_order with its text classifier and parser, the catalog matcher,   *)
(* the order ledger kept in SQLite, the stock summaries and the admin      *)
(* product operations.                                                     *)
(*                                                                         *)
(* Text is a sequence of one-character strings.  The Korean literals of    *)
(* the source are written with ASCII stand-ins:                            *)
(*   "G" = the unit word (gae),                                            *)
(*   "J","M" = the two characters of the order fragment (ju-mun),          *)
(*   "H","I" = the two characters of the confirm fragment (hwag-in).       *)
(***************************************************************************)
EXTENDS Integers, Sequences, FiniteSets, TLC

VARIABLES
    products,       \* table products, rows in id order
    orders,         \* table orders (committed rows), in id order
    order_items,    \* table order_items (committed rows), in id order
    pc,             \* position of the kakao_order coroutine
    user_text,      \* kakao_order: user_text
    parsed,         \* kakao_order: (phone4, product_candidate, quantity)
    product,        \* kakao_order: the row the catalog match returned
    now,            \* kakao_order: now
    order_id,       \* kakao_order: order_id (cur.lastrowid)
    tx_orders,      \* rows written to orders by the open transaction
    tx_items,       \* rows written to order_items by the open transaction
    reply,          \* the response of kakao_order
    page_pc,        \* position of a show_products request
    page_products,  \* show_products: products (first SELECT)
    inbox           \* the utterance a parser run is given

vars == <<products, orders, order_items, pc, user_text, parsed, product, now,
          order_id, tx_orders, tx_items, reply, page_pc, page_products, inbox>>

-----------------------------------------------------------------------------
(* Characters and the Python string operations the source uses.            *)

GAE == "G"
JUMUN == <<"J", "M">>
HWAGIN == <<"H", "I">>
JUMUNHWAGIN == <<"J", "M", "H", "I">>

Digits == {"0", "1", "2", "3", "4", "5", "6", "7", "8", "9"}

IsDigit(c) == c \in Digits

\* \s of re, and the characters str.strip() and str.split() treat as blank
IsSpace(c) == c \in {" ", "\t", "\n"}

DigitVal(c) ==
    CASE c = "0" -> 0 [] c = "1" -> 1 [] c = "2" -> 2 [] c = "3" -> 3
      [] c = "4" -> 4 [] c = "5" -> 5 [] c = "6" -> 6 [] c = "7" -> 7
      [] c = "8" -> 8 [] c = "9" -> 9

DigitChar(n) ==
    CASE n = 0 -> "0" [] n = 1 -> "1" [] n = 2 -> "2" [] n = 3 -> "3"
      [] n = 4 -> "4" [] n = 5 -> "5" [] n = 6 -> "6" [] n = 7 -> "7"
      [] n = 8 -> "8" [] n = 9 -> "9"

\* int(s) of a run of digits: leading zeros vanish
RECURSIVE int(_)
int(ds) ==
    IF ds = <<>> THEN 0
    ELSE 10 * int(SubSeq(ds, 1, Len(ds) - 1)) + DigitVal(ds[Len(ds)])

\* str(n) of a natural number, as the f-string of qty_pattern formats it
RECURSIVE str(_)
str(n) ==
    IF n < 10 THEN <<DigitChar(n)>>
    ELSE str(n \div 10) \o <<DigitChar(n % 10)>>

RECURSIVE lstrip(_)
lstrip(s) ==
    IF s # <<>> /\ IsSpace(s[1]) THEN lstrip(Tail(s)) ELSE s

RECURSIVE rstrip(_)
rstrip(s) ==
    IF s # <<>> /\ IsSpace(s[Len(s)]) THEN rstrip(SubSeq(s, 1, Len(s) - 1)) ELSE s

strip(s) == rstrip(lstrip(s))

\* the first whitespace-free run of s, s not starting with whitespace
RECURSIVE FirstToken(_)
FirstToken(s) ==
    IF s = <<>> \/ IsSpace(s[1]) THEN <<>>
    ELSE <<s[1]>> \o FirstToken(Tail(s))

\* str.split(): the whitespace-separated tokens
RECURSIVE split(_)
split(s) ==
    LET t == lstrip(s)
        w == FirstToken(t)
    IN  IF t = <<>> THEN <<>>
        ELSE <<w>> \o split(SubSeq(t, Len(w) + 1, Len(t)))

\* "".join(parts)
RECURSIVE join(_)
join(parts) ==
    IF parts = <<>> THEN <<>> ELSE parts[1] \o join(Tail(parts))

StartsWith(s, old) ==
    Len(s) >= Len(old) /\ SubSeq(s, 1, Len(old)) = old

\* old in s
Contains(s, old) ==
    \E i \in 1..(Len(s) - Len(old) + 1) : SubSeq(s, i, i + Len(old) - 1) = old

\* s.replace(old, "", count); count = -1 replaces every occurrence
RECURSIVE replace(_, _, _)
replace(s, old, count) ==
    IF count = 0 \/ Len(s) < Len(old) THEN s
    ELSE IF StartsWith(s, old)
         THEN replace(SubSeq(s, Len(old) + 1, Len(s)), old,
                      IF count > 0 THEN count - 1 ELSE count)
         ELSE <<s[1]>> \o replace(Tail(s), old, count)

RECURSIVE SkipDigits(_, _)
SkipDigits(s, i) ==
    IF i <= Len(s) /\ IsDigit(s[i]) THEN SkipDigits(s, i + 1) ELSE i

RECURSIVE SkipSpace(_, _)
SkipSpace(s, i) ==
    IF i <= Len(s) /\ IsSpace(s[i]) THEN SkipSpace(s, i + 1) ELSE i

SkipGae(s, i) == IF i <= Len(s) /\ s[i] = GAE THEN i + 1 ELSE i

\* \s*gae?\s*$ matches s from index i on
UnitTail(s, i) == SkipSpace(s, SkipGae(s, SkipSpace(s, i))) = Len(s) + 1

\* re.search(r"(\d{4})", raw): start of the leftmost match, 0 for no match
SearchPhone(raw) ==
    LET hits == {i \in 1..(Len(raw) - 3) : \A k \in 0..3 : IsDigit(raw[i + k])}
    IN  IF hits = {} THEN 0 ELSE CHOOSE i \in hits : \A j \in hits : i <= j

\* re.search(r"(\d+)\s*gae?\s*$", raw): start of the leftmost match, 0 for none
SearchQty(raw) ==
    LET hits == {i \in 1..Len(raw) :
                    /\ SkipDigits(raw, i) > i
                    /\ UnitTail(raw, SkipDigits(raw, i))}
    IN  IF hits = {} THEN 0 ELSE CHOOSE i \in hits : \A j \in hits : i <= j

\* SubQty with the unit word required: the pattern {quantity}\s*gae\s*$
SubQtyNeedsUnit(temp, quantity) ==
    LET lit == str(quantity)
        hits == {i \in 1..Len(temp) :
                    /\ StartsWith(SubSeq(temp, i, Len(temp)), lit)
                    /\ SkipGae(temp, SkipSpace(temp, i + Len(lit)))
                         > SkipSpace(temp, i + Len(lit))
                    /\ UnitTail(temp, i + Len(lit))}
    IN  IF hits = {} THEN temp
        ELSE SubSeq(temp, 1, (CHOOSE i \in hits : \A j \in hits : i <= j) - 1)

\* re.compile(rf"{quantity}\s*gae?\s*$").sub("", temp)
SubQty(temp, quantity) ==
    LET lit == str(quantity)
        hits == {i \in 1..Len(temp) :
                    /\ StartsWith(SubSeq(temp, i, Len(temp)), lit)
                    /\ UnitTail(temp, i + Len(lit))}
    IN  IF hits = {} THEN temp
        ELSE SubSeq(temp, 1, (CHOOSE i \in hits : \A j \in hits : i <= j) - 1)

-----------------------------------------------------------------------------
(* Helpers of the source.                                                  *)

None == [kind |-> "None"]

normalize_name(name) == strip(replace(name, <<" ">>, -1))

parse_order_text(text) ==
    LET raw == strip(text)
        p == SearchPhone(raw)
        q == SearchQty(raw)
        phone4 == SubSeq(raw, p, p + 3)
        quantity == int(SubSeq(raw, q, SkipDigits(raw, q) - 1))
        temp == strip(replace(SubQty(replace(raw, phone4, 1), quantity),
                              <<GAE>>, -1))
    IN  IF p = 0 THEN None
        ELSE IF q = 0 THEN None
        ELSE IF temp = <<>> THEN None
        ELSE [kind |-> "Order", phone4 |-> phone4,
              product_candidate |-> normalize_name(temp), quantity |-> quantity]

\* is_order_check_text with re.match in place of re.fullmatch
is_order_check_text_match(text) ==
    LET raw == strip(text)
        parts == split(raw)
        rest == join(Tail(parts))
    IN  IF parts = <<>> THEN None
        ELSE IF Len(parts[1]) >= 4 /\ \A k \in 1..4 : IsDigit(parts[1][k])
        THEN IF Contains(rest, JUMUNHWAGIN)
                \/ (Contains(rest, JUMUN) /\ Contains(rest, HWAGIN))
             THEN [kind |-> "Lookup", phone4 |-> parts[1]]
             ELSE None
        ELSE None

is_order_check_text(text) ==
    LET raw == strip(text)
        parts == split(raw)
        rest == join(Tail(parts))
    IN  IF parts = <<>> THEN None
        ELSE IF Len(parts[1]) = 4 /\ \A k \in 1..4 : IsDigit(parts[1][k])
        THEN IF Contains(rest, JUMUNHWAGIN)
                \/ (Contains(rest, JUMUN) /\ Contains(rest, HWAGIN))
             THEN [kind |-> "Lookup", phone4 |-> parts[1]]
             ELSE None
        ELSE None

\* kakao_order, lines 239-258: the lookup check first, then the order parse
interpret(text) ==
    LET t == strip(text)
        chk == is_order_check_text(t)
    IN  IF chk # None THEN chk
        ELSE IF parse_order_text(t) = None THEN [kind |-> "Unrecognized"]
        ELSE parse_order_text(t)

-----------------------------------------------------------------------------
(* The store: SQL queries over the committed tables.                       *)

\* LIMIT 50 of build_order_summary_text
LIMIT == 50

\* datetime.now().isoformat(timespec="seconds"): every field is zero-padded to
\* a fixed width; the model keeps the seconds field, t in 0..59
isoformat(t) == <<DigitChar(t \div 10), DigitChar(t % 10)>>

\* SQLite's comparison of two TEXT values: character by character
RECURSIVE TextLess(_, _)
TextLess(a, b) ==
    IF b = <<>> THEN FALSE
    ELSE IF a = <<>> THEN TRUE
    ELSE IF a[1] # b[1] THEN DigitVal(a[1]) < DigitVal(b[1])
    ELSE TextLess(Tail(a), Tail(b))

\* SELECT * FROM products WHERE is_active = 1 (rows come in id order)
ActiveProducts == SelectSeq(products, LAMBDA r : r.is_active = 1)

RECURSIVE FirstMatch(_, _)
FirstMatch(rows, product_candidate) ==
    IF rows = <<>> THEN None
    ELSE IF normalize_name(rows[1].name) = product_candidate THEN rows[1]
    ELSE FirstMatch(Tail(rows), product_candidate)

get_product_by_normalized_name(product_candidate) ==
    FirstMatch(ActiveProducts, product_candidate)

\* JoinRows reading the price from the products row, p.price
RECURSIVE JoinRowsCatalogPrice(_, _)
JoinRowsCatalogPrice(items, phone4) ==
    IF items = <<>> THEN <<>>
    ELSE LET i == items[1]
             os == SelectSeq(orders, LAMBDA o : o.id = i.order_id /\ o.phone4 = phone4)
             ps == SelectSeq(products, LAMBDA p : p.id = i.product_id)
         IN  (IF os = <<>> \/ ps = <<>> THEN <<>>
              ELSE <<[order_id |-> os[1].id, phone4 |-> os[1].phone4,
                      created_at |-> os[1].created_at, product_name |-> ps[1].name,
                      quantity |-> i.quantity, unit_price |-> ps[1].price]>>)
             \o JoinRowsCatalogPrice(Tail(items), phone4)

\* orders o JOIN order_items i ON o.id = i.order_id JOIN products p ON
\* p.id = i.product_id WHERE o.phone4 = ?
RECURSIVE JoinRows(_, _)
JoinRows(items, phone4) ==
    IF items = <<>> THEN <<>>
    ELSE LET i == items[1]
             os == SelectSeq(orders, LAMBDA o : o.id = i.order_id /\ o.phone4 = phone4)
             ps == SelectSeq(products, LAMBDA p : p.id = i.product_id)
         IN  (IF os = <<>> \/ ps = <<>> THEN <<>>
              ELSE <<[order_id |-> os[1].id, phone4 |-> os[1].phone4,
                      created_at |-> os[1].created_at, product_name |-> ps[1].name,
                      quantity |-> i.quantity, unit_price |-> i.unit_price]>>)
             \o JoinRows(Tail(items), phone4)

\* ORDER BY o.id DESC alone
OrderedBeforeIdOnly(r, s) == r.order_id > s.order_id

\* ORDER BY o.created_at DESC, o.id DESC: r comes before s
OrderedBefore(r, s) ==
    \/ TextLess(s.created_at, r.created_at)
    \/ (s.created_at = r.created_at /\ r.order_id > s.order_id)

RECURSIVE Insert(_, _)
Insert(sorted, r) ==
    IF sorted = <<>> THEN <<r>>
    ELSE IF OrderedBefore(r, sorted[1]) THEN <<r>> \o sorted
    ELSE <<sorted[1]>> \o Insert(Tail(sorted), r)

RECURSIVE OrderBy(_)
OrderBy(rows) ==
    IF rows = <<>> THEN <<>>
    ELSE Insert(OrderBy(SubSeq(rows, 1, Len(rows) - 1)), rows[Len(rows)])

Limit(rows, n) == SubSeq(rows, 1, IF Len(rows) < n THEN Len(rows) ELSE n)

RECURSIVE Total(_)
Total(rows) ==
    IF rows = <<>> THEN 0
    ELSE rows[1].quantity * rows[1].unit_price + Total(Tail(rows))

\* lines 192-202: one line of the reply per row, with its subtotal
RECURSIVE Lines(_)
Lines(rows) ==
    IF rows = <<>> THEN <<>>
    ELSE <<[created |-> rows[1].created_at, name |-> rows[1].product_name,
            qty |-> rows[1].quantity,
            subtotal |-> rows[1].quantity * rows[1].unit_price]>>
         \o Lines(Tail(rows))

build_order_summary_text(phone4) ==
    LET rows == Limit(OrderBy(JoinRows(order_items, phone4)), LIMIT)
    IN  IF rows = <<>> THEN [kind |-> "NoOrders", phone4 |-> phone4]
        ELSE [kind |-> "Summary", phone4 |-> phone4,
              lines |-> Lines(rows), total_all |-> Total(rows)]

admin_orders_by_phone(phone4) == OrderBy(JoinRows(order_items, phone4))

\* COUNT(i.id) in place of SUM(i.quantity)
RECURSIVE CountItems(_, _)
CountItems(items, id) ==
    IF items = <<>> THEN 0
    ELSE (IF items[1].product_id = id THEN 1 ELSE 0) + CountItems(Tail(items), id)

\* IFNULL(SUM(i.quantity), 0) of products p LEFT JOIN order_items i ON
\* p.id = i.product_id, for the group of product id
RECURSIVE SumQuantity(_, _)
SumQuantity(items, id) ==
    IF items = <<>> THEN 0
    ELSE (IF items[1].product_id = id THEN items[1].quantity ELSE 0)
         + SumQuantity(Tail(items), id)

admin_product_summary ==
    [k \in 1..Len(products) |->
        LET r == products[k]
            ordered == SumQuantity(order_items, r.id)
        IN  [id |-> r.id, name |-> r.name, price |-> r.price,
             base_stock |-> r.base_stock, ordered_qty |-> ordered,
             remaining |-> r.base_stock - ordered,
             is_active |-> (r.is_active # 0)]]

\* PageRows without the base_stock > 0 guard of the status
PageRowsNoStockGuard(listed) ==
    [k \in 1..Len(listed) |->
        LET p == listed[k]
            s == SelectSeq(products, LAMBDA r : r.id = p.id)
            base_stock == IF s # <<>> THEN s[1].base_stock ELSE p.base_stock
            ordered == IF s # <<>> THEN SumQuantity(order_items, p.id) ELSE 0
            remaining == base_stock - ordered
        IN  [name |-> p.name, price |-> p.price, base_stock |-> base_stock,
             ordered |-> ordered, remaining |-> remaining,
             status |-> IF remaining <= 0 THEN "SoldOut" ELSE "OnSale"]]

\* show_products, lines 319-354: the summary query and the table rows,
\* listed being the rows of the first SELECT
PageRows(listed) ==
    [k \in 1..Len(listed) |->
        LET p == listed[k]
            s == SelectSeq(products, LAMBDA r : r.id = p.id)
            base_stock == IF s # <<>> THEN s[1].base_stock ELSE p.base_stock
            ordered == IF s # <<>> THEN SumQuantity(order_items, p.id) ELSE 0
            remaining == base_stock - ordered
        IN  [name |-> p.name, price |-> p.price, base_stock |-> base_stock,
             ordered |-> ordered, remaining |-> remaining,
             status |-> IF base_stock > 0 /\ remaining <= 0
                        THEN "SoldOut" ELSE "OnSale"]]

-----------------------------------------------------------------------------
(* kakao_order: an async handler, run by the one event loop, so one at a   *)
(* time; its synchronous store calls interleave with the admin and page    *)
(* handlers, which FastAPI runs on worker threads.                         *)

\* the handler's connection holds SQLite's write lock from its first INSERT
\* to its commit or close
WriteLocked == pc \in {"order_inserted", "item_inserted"}

\* lines 238-269: classify, parse, match the catalog
Receive(text) ==
    LET cmd == interpret(text)
        found == get_product_by_normalized_name(cmd.product_candidate)
    IN  /\ pc = "idle"
        /\ user_text' = strip(text)
        /\ IF cmd.kind = "Lookup"
           THEN /\ reply' = build_order_summary_text(cmd.phone4)
                /\ pc' = "replied"
                /\ UNCHANGED <<parsed, product>>
           ELSE IF cmd.kind = "Unrecognized"
           THEN /\ reply' = [kind |-> "Help"]
                /\ pc' = "replied"
                /\ UNCHANGED <<parsed, product>>
           ELSE IF found = None
           THEN /\ reply' = [kind |-> "NotFound"]
                /\ pc' = "replied"
                /\ UNCHANGED <<parsed, product>>
           ELSE /\ parsed' = cmd
                /\ product' = found
                /\ pc' = "matched"
                /\ UNCHANGED reply
        /\ UNCHANGED <<products, orders, order_items, now, order_id, tx_orders,
                       tx_items, page_pc, page_products, inbox>>

\* InsertOrder on a connection in autocommit mode: the row is committed at once
InsertOrderAutocommit(t) ==
    /\ pc = "matched"
    /\ now' = isoformat(t)
    /\ order_id' = Len(orders) + 1
    /\ orders' = Append(orders, [id |-> Len(orders) + 1, phone4 |-> parsed.phone4,
                                 created_at |-> isoformat(t)])
    /\ pc' = "order_inserted"
    /\ UNCHANGED <<products, order_items, user_text, parsed, product, tx_orders,
                   tx_items, reply, page_pc, page_products, inbox>>

\* lines 272-279: now, INSERT INTO orders, lastrowid; t is the clock's reading
InsertOrder(t) ==
    /\ pc = "matched"
    /\ now' = isoformat(t)
    /\ order_id' = Len(orders) + 1
    /\ tx_orders' = <<[id |-> Len(orders) + 1, phone4 |-> parsed.phone4,
                       created_at |-> isoformat(t)]>>
    /\ pc' = "order_inserted"
    /\ UNCHANGED <<products, orders, order_items, user_text, parsed, product,
                   tx_items, reply, page_pc, page_products, inbox>>

\* lines 280-286: INSERT INTO order_items
InsertItem ==
    /\ pc = "order_inserted"
    /\ tx_items' = <<[id |-> Len(order_items) + 1, order_id |-> order_id,
                      product_id |-> product.id, quantity |-> parsed.quantity,
                      unit_price |-> product.price]>>
    /\ pc' = "item_inserted"
    /\ UNCHANGED <<products, orders, order_items, user_text, parsed, product,
                   now, order_id, tx_orders, reply, page_pc, page_products,
                   inbox>>

\* lines 287-299: commit, close, the confirmation
Commit ==
    /\ pc = "item_inserted"
    /\ orders' = orders \o tx_orders
    /\ order_items' = order_items \o tx_items
    /\ reply' = [kind |-> "Done", phone4 |-> parsed.phone4,
                 product_name |-> product.name, quantity |-> parsed.quantity,
                 total_price |-> product.price * parsed.quantity]
    /\ tx_orders' = <<>>
    /\ tx_items' = <<>>
    /\ pc' = "replied"
    /\ UNCHANGED <<products, user_text, parsed, product, now, order_id,
                   page_pc, page_products, inbox>>

\* a store call of lines 275-287 raises: the connection is dropped with its
\* transaction uncommitted, which SQLite rolls back
Fail ==
    /\ pc \in {"matched", "order_inserted", "item_inserted"}
    /\ tx_orders' = <<>>
    /\ tx_items' = <<>>
    /\ reply' = [kind |-> "Error"]
    /\ pc' = "replied"
    /\ UNCHANGED <<products, orders, order_items, user_text, parsed, product,
                   now, order_id, page_pc, page_products, inbox>>

\* the response leaves; the coroutine's frame is gone
Return ==
    /\ pc = "replied"
    /\ pc' = "idle"
    /\ user_text' = <<>>
    /\ parsed' = None
    /\ product' = None
    /\ now' = <<>>
    /\ order_id' = 0
    /\ reply' = None
    /\ UNCHANGED <<products, orders, order_items, tx_orders, tx_items,
                   page_pc, page_products, inbox>>

-----------------------------------------------------------------------------
(* Admin product operations (sync handlers, one statement and a commit).   *)

NameTaken(name, except_id) ==
    \E k \in 1..Len(products) : products[k].name = name /\ products[k].id # except_id

create_product(name, price, base_stock) ==
    /\ ~WriteLocked
    /\ IF NameTaken(name, 0)
       THEN UNCHANGED products
       ELSE products' = Append(products,
                [id |-> Len(products) + 1, name |-> name, price |-> price,
                 base_stock |-> base_stock, is_active |-> 1])
    /\ UNCHANGED <<orders, order_items, pc, user_text, parsed, product, now,
                   order_id, tx_orders, tx_items, reply, page_pc, page_products,
                   inbox>>

\* an Optional field of ProductUpdate: <<>> is None, <<v>> carries v
Updated(row, data) ==
    [id |-> row.id,
     name |-> IF data.name # <<>> THEN data.name[1] ELSE row.name,
     price |-> IF data.price # <<>> THEN data.price[1] ELSE row.price,
     base_stock |-> IF data.base_stock # <<>> THEN data.base_stock[1]
                    ELSE row.base_stock,
     is_active |-> IF data.is_active # <<>>
                   THEN (IF data.is_active[1] THEN 1 ELSE 0)
                   ELSE row.is_active]

update_product(product_id, data) ==
    /\ ~WriteLocked
    /\ IF data.name = <<>> /\ data.price = <<>> /\ data.base_stock = <<>>
          /\ data.is_active = <<>>
       THEN UNCHANGED products
       ELSE IF product_id \notin 1..Len(products)
       THEN UNCHANGED products
       ELSE IF data.name # <<>> /\ NameTaken(data.name[1], product_id)
       THEN UNCHANGED products
       ELSE products' = [products EXCEPT ![product_id] = Updated(@, data)]
    /\ UNCHANGED <<orders, order_items, pc, user_text, parsed, product, now,
                   order_id, tx_orders, tx_items, reply, page_pc, page_products,
                   inbox>>

-----------------------------------------------------------------------------
(* show_products: two SELECTs on one connection, no transaction.           *)

\* lines 312-317: the first SELECT
ShowProductsList ==
    /\ page_pc = "idle"
    /\ page_products' = ActiveProducts
    /\ page_pc' = "listed"
    /\ UNCHANGED <<products, orders, order_items, pc, user_text, parsed,
                   product, now, order_id, tx_orders, tx_items, reply, inbox>>

\* lines 319-396: the second SELECT; the page PageRows(page_products) leaves
ShowProductsRender ==
    /\ page_pc = "listed"
    /\ page_products' = <<>>
    /\ page_pc' = "idle"
    /\ UNCHANGED <<products, orders, order_items, pc, user_text, parsed,
                   product, now, order_id, tx_orders, tx_items, reply, inbox>>

-----------------------------------------------------------------------------
(* Inputs and bounds.                                                      *)

MaxOrders == 1
MaxStockOrders == 2

PHONE_A == <<"1", "2", "3", "4">>
PHONE_B == <<"5", "6", "7", "8">>

PHONE_NONE == <<"0", "0", "0", "0">>

NAME_AB == <<"a", " ", "b">>
NAME_C == <<"c">>

ProductNames == {NAME_AB, NAME_C}
Prices == {1, 2}
Stocks == {0, 2}

Utterances ==
    { PHONE_A \o <<" ", "a", "b", " ", "2">>,
      PHONE_B \o <<" ", "c", " ", "0", GAE>>,
      PHONE_A \o <<" ">> \o JUMUNHWAGIN,
      <<"a", "b", " ", "2">> }

NoUpdate == [name |-> <<>>, price |-> <<>>, base_stock |-> <<>>, is_active |-> <<>>]

\* the bodies of PATCH requests: no field, one field, or price and flag together
ProductUpdates(names, prices, stocks) ==
    {NoUpdate}
    \cup {[NoUpdate EXCEPT !.name = <<v>>] : v \in names}
    \cup {[NoUpdate EXCEPT !.price = <<v>>] : v \in prices}
    \cup {[NoUpdate EXCEPT !.base_stock = <<v>>] : v \in stocks}
    \cup {[NoUpdate EXCEPT !.is_active = <<v>>] : v \in BOOLEAN}
    \cup {[NoUpdate EXCEPT !.price = <<v>>, !.is_active = <<TRUE>>] : v \in prices}

\* a message head sep name " " qty, as the parser runs compose it
Text(m) == m.head \o m.sep \o m.name \o <<" ">> \o str(m.qty)

NoMessage == [head |-> <<>>, sep |-> <<>>, name |-> <<>>, qty |-> 0]

EmptyFrame ==
    /\ pc = "idle"
    /\ user_text = <<>>
    /\ parsed = None
    /\ product = None
    /\ now = <<>>
    /\ order_id = 0
    /\ tx_orders = <<>>
    /\ tx_items = <<>>
    /\ reply = None
    /\ page_pc = "idle"
    /\ page_products = <<>>

\* init_db: the three tables, empty
Init ==
    /\ products = <<>>
    /\ orders = <<>>
    /\ order_items = <<>>
    /\ inbox = NoMessage
    /\ EmptyFrame

\* a request arrives; an order is taken while the ledger has fewer than cap rows
KakaoOrder(texts, cap) ==
    \E text \in texts :
        /\ interpret(text).kind = "Order" => Len(orders) < cap
        /\ Receive(text)

Record(times) == \E t \in times : InsertOrder(t)

CreateProduct(names, prices, stocks) ==
    \E name \in names, price \in prices, base_stock \in stocks :
        create_product(name, price, base_stock)

UpdateProduct(updates) ==
    \E product_id \in 1..(Len(products) + 1), data \in updates :
        update_product(product_id, data)

Next ==
    \/ KakaoOrder(Utterances, MaxOrders)
    \/ Record({9})
    \/ InsertItem
    \/ Commit
    \/ Fail
    \/ Return
    \/ CreateProduct(ProductNames, Prices, Stocks)
    \/ UpdateProduct(ProductUpdates(ProductNames, Prices, Stocks))

Spec == Init /\ [][Next]_vars

StockUtterances ==
    { PHONE_A \o <<" ", "a", "b", " ", "2">>,
      PHONE_A \o <<" ", "c", " ", "1", GAE>> }

NextStock ==
    \/ KakaoOrder(StockUtterances, MaxStockOrders)
    \/ Record({9})
    \/ InsertItem
    \/ Commit
    \/ Fail
    \/ Return
    \/ CreateProduct(ProductNames, {1}, Stocks)
    \/ UpdateProduct(ProductUpdates({}, {}, Stocks))
    \/ ShowProductsList
    \/ ShowProductsRender

SpecStock == Init /\ [][NextStock]_vars

-----------------------------------------------------------------------------
(* A ledger that has grown to the summary's LIMIT.                         *)

MaxExtra == 3

\* rows already recorded: every tenth for PHONE_B, at clock readings that
\* are not monotone in the id (datetime.now() is the local wall clock)
LedgerRows == LIMIT + 4

LedgerOrders ==
    [i \in 1..LedgerRows |->
        [id |-> i, phone4 |-> IF i % 10 = 0 THEN PHONE_B ELSE PHONE_A,
         created_at |-> isoformat(8 + ((i * 3) % 4))]]

LedgerItems ==
    [i \in 1..LedgerRows |->
        [id |-> i, order_id |-> i, product_id |-> 1 + (i % 2),
         quantity |-> i % 3, unit_price |-> 1 + (i % 2)]]

LedgerProducts ==
    <<[id |-> 1, name |-> NAME_AB, price |-> 1, base_stock |-> 0, is_active |-> 1],
      [id |-> 2, name |-> NAME_C, price |-> 2, base_stock |-> 2, is_active |-> 1]>>

LedgerUtterances ==
    { PHONE_A \o <<" ", "a", "b", " ", "2">>,
      PHONE_B \o <<" ", "c", " ", "1", GAE>>,
      PHONE_A \o <<" ">> \o JUMUNHWAGIN,
      PHONE_B \o <<" ">> \o JUMUN \o <<" ">> \o HWAGIN,
      PHONE_NONE \o <<" ">> \o HWAGIN \o JUMUN }

InitLedger ==
    /\ products = LedgerProducts
    /\ orders = LedgerOrders
    /\ order_items = LedgerItems
    /\ inbox = NoMessage
    /\ EmptyFrame

NextLedger ==
    \/ KakaoOrder(LedgerUtterances, LedgerRows + MaxExtra)
    \/ Record({9, 10})
    \/ InsertItem
    \/ Commit
    \/ Fail
    \/ Return

SpecLedger == InitLedger /\ [][NextLedger]_vars

-----------------------------------------------------------------------------
(* Parser runs: one composed message, and a catalog that holds the product *)
(* the order grammar reads out of it.                                      *)

MaxNameAtoms == 3

\* a name is up to MaxNameAtoms of these; "J" and "M" also serve as letters
NameAtoms == {<<" ">>, <<GAE>>, <<"J">>, <<"M">>, HWAGIN}

RECURSIVE NamesOfAtoms(_)
NamesOfAtoms(n) ==
    IF n = 0 THEN {<<>>}
    ELSE {a \o w : a \in NameAtoms, w \in NamesOfAtoms(n - 1)}

ParseNames == UNION {NamesOfAtoms(n) : n \in 1..MaxNameAtoms}

ParseHeads ==
    { [head |-> PHONE_A, sep |-> <<" ">>],
      [head |-> <<"0", "1", "0", "1">>, sep |-> <<" ">>],
      [head |-> <<"1", "2", "3">>, sep |-> <<" ">>],
      [head |-> <<"1", "2", "3", "4", "5">>, sep |-> <<" ">>],
      [head |-> PHONE_A, sep |-> <<>>] }

ParseQtys == {0, 1, 12}

ParseCatalog(text) ==
    IF parse_order_text(text) = None THEN <<>>
    ELSE <<[id |-> 1, name |-> parse_order_text(text).product_candidate,
            price |-> 1, base_stock |-> 0, is_active |-> 1]>>

InitParse ==
    /\ \E h \in ParseHeads, name \in ParseNames, qty \in ParseQtys :
           inbox = [head |-> h.head, sep |-> h.sep, name |-> name, qty |-> qty]
    /\ products = ParseCatalog(Text(inbox))
    /\ orders = <<>>
    /\ order_items = <<>>
    /\ EmptyFrame

NextParse ==
    \/ KakaoOrder({Text(inbox)}, 1)
    \/ Record({9})
    \/ InsertItem
    \/ Commit
    \/ Fail
    \/ Return

SpecParse == InitParse /\ [][NextParse]_vars

-----------------------------------------------------------------------------
(* Properties of the parser runs (SpecParse).                              *)

FourDigits(w) == Len(w) = 4 /\ \A k \in 1..4 : IsDigit(w[k])

HasKeyword(r) ==
    Contains(r, JUMUNHWAGIN) \/ (Contains(r, JUMUN) /\ Contains(r, HWAGIN))

Squeeze(s) == SelectSeq(s, LAMBDA c : ~IsSpace(c))

\* the first whitespace-separated token of t, by its two ends
FirstWord(t) ==
    LET from == {i \in 1..Len(t) : ~IsSpace(t[i])}
        i0 == IF from = {} THEN Len(t) + 1 ELSE CHOOSE i \in from : \A j \in from : i <= j
        upto == {j \in i0..Len(t) : IsSpace(t[j])}
        j0 == IF upto = {} THEN Len(t) + 1 ELSE CHOOSE i \in upto : \A j \in upto : i <= j
    IN  SubSeq(t, i0, j0 - 1)

\* the remaining tokens of t, concatenated
RestJoined(t) ==
    LET from == {i \in 1..Len(t) : ~IsSpace(t[i])}
        i0 == IF from = {} THEN Len(t) + 1 ELSE CHOOSE i \in from : \A j \in from : i <= j
    IN  Squeeze(SubSeq(t, i0 + Len(FirstWord(t)), Len(t)))

\* the message is phone4 " " p " " q
RoundTripShape == FourDigits(inbox.head) /\ inbox.sep = <<" ">>

OrderCommand(phone4, name, qty) ==
    [kind |-> "Order", phone4 |-> phone4, product_candidate |-> name,
     quantity |-> qty]

\* p holds no unit word, is not blank, and with q does not spell a lookup
PlainName ==
    /\ ~Contains(inbox.name, <<GAE>>)
    /\ Squeeze(inbox.name) # <<>>
    /\ ~HasKeyword(Squeeze(inbox.name) \o str(inbox.qty))

\* C9 as stated: for every 4-digit phone4, every non-empty digit-free name p
\* and every q >= 0, the text phone4 " " p " " q is interpreted as
\* OrderCommand(phone4, normalize(p), q).
C9_RoundTripAnyName ==
    RoundTripShape =>
        interpret(Text(inbox)) =
            OrderCommand(inbox.head, normalize_name(inbox.name), inbox.qty)

\* C9 amended: the round trip holds when p, besides holding no digit, holds no
\* unit word, has a non-blank character, and p with q does not make the
\* message a lookup command; the handler then carries that command on.
C9_RoundTrip ==
    (RoundTripShape /\ PlainName) =>
        /\ interpret(Text(inbox)) =
              OrderCommand(inbox.head, normalize_name(inbox.name), inbox.qty)
        /\ pc \in {"matched", "order_inserted", "item_inserted"} =>
              parsed = OrderCommand(inbox.head, normalize_name(inbox.name), inbox.qty)
        /\ pc = "replied" => reply.kind \in {"Done", "Error"}

\* a run has parsed a name that normalization changed, with quantity 0
C9_Witness ==
    /\ RoundTripShape /\ PlainName
    /\ pc = "matched"
    /\ parsed.product_candidate # inbox.name
    /\ parsed.quantity = 0

\* C10: a message whose first token is exactly 4 digits and whose remaining
\* tokens, concatenated, hold the keyword is answered as a lookup for that
\* token and records no order, also when the text parses as an order for an
\* active product; a message whose first token is not exactly 4 digits is
\* never answered as a lookup.
C10_LookupFirst ==
    LET t == Text(inbox)
        w == FirstWord(t)
    IN  /\ (FourDigits(w) /\ HasKeyword(RestJoined(t))) =>
              /\ orders = <<>> /\ order_items = <<>>
              /\ tx_orders = <<>> /\ tx_items = <<>>
              /\ pc \in {"idle", "replied"}
              /\ pc = "replied" =>
                    /\ reply.kind \in {"Summary", "NoOrders"}
                    /\ reply.phone4 = w
        /\ ~FourDigits(w) =>
              (pc = "replied" => reply.kind \notin {"Summary", "NoOrders"})

\* a lookup was answered for a text that also parses as an order for the
\* active product of the catalog
C10_Witness ==
    /\ pc = "replied"
    /\ reply.kind = "NoOrders"
    /\ parse_order_text(Text(inbox)) # None
    /\ get_product_by_normalized_name(
           parse_order_text(Text(inbox)).product_candidate) # None

-----------------------------------------------------------------------------
(* Properties of the webhook running beside the admin operations (Spec).   *)

\* what any request reads: each order row has exactly one item row, each
\* item row exactly one order row
LedgerPaired ==
    /\ \A k \in 1..Len(orders) :
          Cardinality({j \in 1..Len(order_items) :
                          order_items[j].order_id = orders[k].id}) = 1
    /\ \A j \in 1..Len(order_items) :
          Cardinality({k \in 1..Len(orders) :
                          orders[k].id = order_items[j].order_id}) = 1

\* a step leaves both tables alone, or is the commit that adds one row to each;
\* a step that ends in the error reply is of the first kind
RecordStep ==
    /\ \/ (orders' = orders /\ order_items' = order_items)
       \/ /\ pc = "item_inserted" /\ reply'.kind = "Done"
          /\ Len(orders') = Len(orders) + 1
          /\ Len(order_items') = Len(order_items) + 1
    /\ reply'.kind = "Error" =>
          (Len(orders') = Len(orders) /\ Len(order_items') = Len(order_items))

\* C1: recording an order is atomic: in every state another request can read,
\* and after a failure anywhere between the two inserts, each order row has
\* exactly one item row and each item row one order row; a failed record
\* leaves the counts of both tables as they were.
C1_RecordAtomic == [](LedgerPaired) /\ [][RecordStep]_vars

\* a record failed after its order row was written
C1_Witness ==
    /\ pc = "replied"
    /\ reply.kind = "Error"
    /\ order_id = Len(orders) + 1
    /\ tx_orders = <<>>

\* C2: the unit_price of an item equals the price its product has in the
\* store at the moment the order rows are written, in every interleaving
\* with update_product.
C2_UnitPriceIsCurrent ==
    \A j \in 1..Len(tx_items) :
        tx_items[j].unit_price = products[tx_items[j].product_id].price

\* C3: every order item of the ledger has a quantity >= 1.
C3_QuantityPositive ==
    \A j \in 1..Len(order_items) : order_items[j].quantity >= 1

ActiveMatch(candidate) ==
    \E k \in 1..Len(products) :
        /\ products[k].is_active = 1
        /\ normalize_name(products[k].name) = candidate

\* a message that is Unrecognized, or whose candidate matches no active
\* product, gets its guidance reply and changes no table
GuidanceStep ==
    (pc = "idle" /\ pc' # "idle") =>
        /\ interpret(user_text').kind = "Unrecognized" =>
              /\ reply'.kind = "Help"
              /\ UNCHANGED <<products, orders, order_items>>
        /\ (/\ interpret(user_text').kind = "Order"
            /\ ~ActiveMatch(interpret(user_text').product_candidate)) =>
              /\ reply'.kind = "NotFound"
              /\ UNCHANGED <<products, orders, order_items>>

\* an order row appears only while an active product bears the candidate
AppendStep ==
    Len(orders') > Len(orders) => ActiveMatch(parsed.product_candidate)

\* C4: an Unrecognized message, or one whose candidate matches no active
\* product, gets a guidance reply and leaves the three tables unchanged; a new
\* order row appears only when the candidate equals the normalized name of a
\* product that is active.
C4_OrderOnlyOnActiveMatch == [][GuidanceStep /\ AppendStep]_vars

\* the first half of C4 alone
C4_GuidanceLeavesTables == [][GuidanceStep]_vars

Phones == {PHONE_A, PHONE_B, PHONE_NONE}

\* the orders of a customer
Mine(phone4) == {k \in 1..Len(orders) : orders[k].phone4 = phone4}

ItemOf(oid) == CHOOSE j \in 1..Len(order_items) : order_items[j].order_id = oid

\* what the ledger holds for order oid: quantity x unit price of its item
StoredSubtotal(oid) ==
    order_items[ItemOf(oid)].quantity * order_items[ItemOf(oid)].unit_price

\* both listings report every recorded order of a customer, whatever has become
\* of its product, with the subtotal the ledger holds for it
ReportsStoredSubtotals ==
    \A ph \in Phones :
        LET adm == admin_orders_by_phone(ph)
            sum == build_order_summary_text(ph)
        IN  /\ {adm[i].order_id : i \in 1..Len(adm)} =
                   {orders[k].id : k \in Mine(ph)}
            /\ \A i \in 1..Len(adm) :
                  adm[i].quantity * adm[i].unit_price = StoredSubtotal(adm[i].order_id)
            /\ IF adm = <<>> THEN sum.kind = "NoOrders"
               ELSE /\ sum.kind = "Summary"
                    /\ Len(sum.lines) = Len(adm)
                    /\ \A i \in 1..Len(adm) :
                          sum.lines[i].subtotal = StoredSubtotal(adm[i].order_id)

AdminStep ==
    products' # products => (orders' = orders /\ order_items' = order_items)

\* C5: an admin product operation (create_product, update_product of name,
\* price, base_stock or is_active) changes no order and no item row, and the
\* subtotal the customer lookup and the admin listing report for a recorded
\* order is the one held in its item row, hence the same before and after the
\* operation.
C5_AdminFrame == [](ReportsStoredSubtotals) /\ [][AdminStep]_vars

\* an order of PHONE_A, taken for "a b", whose product has since been renamed,
\* repriced, restocked and deactivated
C5_Witness ==
    \E j \in 1..Len(order_items) :
        LET p == products[order_items[j].product_id]
        IN  /\ orders[order_items[j].order_id].phone4 = PHONE_A
            /\ p.name = NAME_C
            /\ p.price # order_items[j].unit_price
            /\ p.base_stock = 2
            /\ p.is_active = 0
            /\ build_order_summary_text(PHONE_A).lines[1].subtotal =
                   2 * order_items[j].unit_price

-----------------------------------------------------------------------------
(* Properties of the stock summaries (SpecStock).                          *)

RECURSIVE QuantityOver(_)
QuantityOver(S) ==
    IF S = {} THEN 0
    ELSE LET j == CHOOSE j \in S : TRUE
         IN  order_items[j].quantity + QuantityOver(S \ {j})

\* the quantities of all items that reference product id, added up
OrderedQuantity(id) ==
    QuantityOver({j \in 1..Len(order_items) : order_items[j].product_id = id})

SummaryAddsUp ==
    /\ \A k \in 1..Len(products) :
          LET r == admin_product_summary[k]
          IN  /\ r.id = products[k].id
              /\ r.base_stock = products[k].base_stock
              /\ r.ordered_qty = OrderedQuantity(products[k].id)
              /\ r.remaining = products[k].base_stock - OrderedQuantity(products[k].id)
    /\ page_pc = "listed" =>
          \A k \in 1..Len(page_products) :
              LET r == PageRows(page_products)[k]
                  id == page_products[k].id
              IN  /\ r.base_stock = products[id].base_stock
                  /\ r.ordered = OrderedQuantity(id)
                  /\ r.remaining = products[id].base_stock - OrderedQuantity(id)

\* an order for an active product is taken whatever the stock
NoStockCheck ==
    /\ (/\ pc = "idle" /\ pc' # "idle"
        /\ interpret(user_text').kind = "Order"
        /\ ActiveMatch(interpret(user_text').product_candidate)) => pc' = "matched"
    /\ (pc \in {"matched", "order_inserted", "item_inserted"} /\ pc' = "replied") =>
          reply'.kind \in {"Done", "Error"}
    /\ (pc = "item_inserted" /\ reply'.kind = "Done") =>
          Len(order_items') = Len(order_items) + 1

\* C6: for every product the stock summary reports orderedQty as the sum of
\* the quantities of all items referencing it (0 if none) and remaining as
\* base_stock - orderedQty of the current rows; no order is rejected because of
\* stock, so remaining can be negative.
C6_StockSummary == [](SummaryAddsUp) /\ [][NoStockCheck]_vars

\* two items of one product have taken remaining below zero
C6_Witness ==
    \E k \in 1..Len(products) :
        /\ admin_product_summary[k].remaining < 0
        /\ Cardinality({j \in 1..Len(order_items) :
                           order_items[j].product_id = products[k].id}) = 2

SoldOutRule(status, base_stock, remaining) ==
    /\ status \in {"SoldOut", "OnSale"}
    /\ status = "SoldOut" <=> (base_stock > 0 /\ remaining <= 0)

PublicStatus ==
    page_pc = "listed" =>
        \A k \in 1..Len(page_products) :
            LET r == PageRows(page_products)[k]
                id == page_products[k].id
            IN  /\ SoldOutRule(r.status, products[id].base_stock,
                               products[id].base_stock - OrderedQuantity(id))
                /\ products[id].base_stock = 0 => r.status = "OnSale"

\* C7 as stated: in the admin view and in the public view every product's
\* status is "sold out" exactly when base_stock > 0 and remaining <= 0.
C7_StatusInBothViews ==
    /\ \A k \in 1..Len(products) :
          LET r == admin_product_summary[k]
          IN  /\ "status" \in DOMAIN r
              /\ SoldOutRule(r.status, r.base_stock, r.remaining)
    /\ PublicStatus

\* C7 amended: in the public view (the products that were active when the page
\* listed them) the status is "sold out" exactly when base_stock > 0 and
\* remaining <= 0 and "on sale" otherwise, so never sold out at base_stock 0;
\* the admin view reports base_stock, ordered_qty and remaining of every
\* product, active or not, and no status.
C7_PublicStatus ==
    /\ PublicStatus
    /\ \A k \in 1..Len(products) :
          DOMAIN admin_product_summary[k] =
              {"id", "name", "price", "base_stock", "ordered_qty", "remaining",
               "is_active"}

\* the page lists a product of base_stock 0 with orders, and it is on sale
C7_Witness ==
    /\ page_pc = "listed"
    /\ \E k \in 1..Len(page_products) :
          LET r == PageRows(page_products)[k]
          IN  r.base_stock = 0 /\ r.ordered > 0 /\ r.remaining < 0
              /\ r.status = "OnSale"

-----------------------------------------------------------------------------
(* Properties of the order listings (SpecLedger).                          *)

\* r is the more recent: the later timestamp, or the same and inserted later
Newer(r, s) ==
    \/ int(r.created_at) > int(s.created_at)
    \/ (int(r.created_at) = int(s.created_at) /\ r.order_id > s.order_id)

RECURSIVE SumSubtotals(_, _)
SumSubtotals(lines, n) ==
    IF n = 0 THEN 0 ELSE lines[n].subtotal + SumSubtotals(lines, n - 1)

ListingOf(phone4) ==
    LET adm == admin_orders_by_phone(phone4)
        sum == build_order_summary_text(phone4)
        n == Cardinality(Mine(phone4))
        m == IF n < LIMIT THEN n ELSE LIMIT
    IN  /\ Len(adm) = n
        /\ {adm[i].order_id : i \in 1..Len(adm)} = {orders[k].id : k \in Mine(phone4)}
        /\ \A i \in 1..Len(adm) :
              LET o == orders[adm[i].order_id]
                  it == order_items[ItemOf(adm[i].order_id)]
              IN  adm[i] = [order_id |-> o.id, phone4 |-> phone4,
                            created_at |-> o.created_at,
                            product_name |-> products[it.product_id].name,
                            quantity |-> it.quantity, unit_price |-> it.unit_price]
        /\ \A i \in 1..Len(adm) : \A j \in (i + 1)..Len(adm) : Newer(adm[i], adm[j])
        /\ IF n = 0
           THEN sum = [kind |-> "NoOrders", phone4 |-> phone4] /\ adm = <<>>
           ELSE /\ sum.kind = "Summary"
                /\ sum.phone4 = phone4
                /\ Len(sum.lines) = m
                /\ \A i \in 1..m :
                      sum.lines[i] = [created |-> adm[i].created_at,
                                      name |-> adm[i].product_name,
                                      qty |-> adm[i].quantity,
                                      subtotal |-> adm[i].quantity * adm[i].unit_price]
                /\ sum.total_all = SumSubtotals(sum.lines, m)

\* C8: for every customer key the customer lookup returns that customer's
\* orders by timestamp descending, ties by insertion order descending, the 50
\* most recent only, with a grand total that is the sum of quantity x unit
\* price over the returned entries; the admin listing returns all of them in
\* that order; a customer without orders gets the "no orders yet" message, and
\* an empty sequence from the admin listing.
C8_Listing ==
    /\ \A ph \in Phones : ListingOf(ph)
    /\ (pc = "replied" /\ reply.kind \in {"Summary", "NoOrders"}) =>
          reply = build_order_summary_text(reply.phone4)

\* a lookup answered for a customer with more than LIMIT orders
C8_Witness ==
    /\ pc = "replied"
    /\ reply.kind = "Summary"
    /\ reply.phone4 = PHONE_A
    /\ Cardinality(Mine(PHONE_A)) > LIMIT
    /\ Len(reply.lines) = LIMIT

====
